---- MODULE Spec2Model ----
(***************************************************************************)
(* Model of the lolid UUID library (src/src/lib.rs): the hex digit codec,  *)
(* the 16-byte value with its version/variant stamping, the text renderer  *)
(* and the text parser.                                                    *)
(*                                                                         *)
(* Bytes are naturals 0..255.  A Uuid's data is a function 0..15 -> byte,  *)
(* indexed as in the source.  A string is a sequence of bytes (its UTF-8   *)
(* encoding); the source index i of a string is element i+1 here.          *)
(***************************************************************************)
EXTENDS Integers, Sequences, FiniteSets

VARIABLES
    data,      \* the Uuid value at hand: Uuid.data, [0..15 -> 0..255]
    text,      \* the string at hand: output of to_str / input of parse_str
    result,    \* the Result returned by the last parse_str
    op,        \* the operation that produced the current state
    ver,       \* the Version argument of the last set_version
    dur,       \* the Duration given to Timestamp::from_unix
    ts,        \* the Timestamp at hand
    node,      \* the 6-byte node (mac) given to v1
    calls,     \* the v1 calls made: arguments and returned value, in order
    seq,       \* the elements the SeqAccess of visit_seq yields
    rand,      \* what getrandom returned to v4: the filled buffer or an error
    rng,       \* the state word of the process-wide generator of prng
    th,        \* per thread: where its prng call stands and what it drew
    draws,     \* the draws made so far, in order: by whom, state consumed, value
    endian     \* the byte order of the target (to_ne_bytes)

vars == <<data, text, result, op, ver, dur, ts, node, calls, seq, rand, rng, th, draws, endian>>

\* The variables of the render/parse/stamp operations, and the others by
\* operation.
codec_vars == <<data, text, result, ver>>
v1_vars == <<dur, ts, node, calls>>
serde_vars == <<seq>>
v4_vars == <<rand>>
prng_vars == <<rng, th, draws, endian>>

----------------------------------------------------------------------------
(* Machine arithmetic on u8                                                *)

U8 == 256
UUID_SIZE == 16
Capacity == 36
SEP == 45

Byte == 0..(U8 - 1)

RECURSIVE Pow2(_)
Pow2(n) == IF n = 0 THEN 1 ELSE 2 * Pow2(n - 1)

RECURSIVE BitAnd(_, _)
BitAnd(a, b) ==
    IF a = 0 \/ b = 0 THEN 0
    ELSE (a % 2) * (b % 2) + 2 * BitAnd(a \div 2, b \div 2)

RECURSIVE BitOr(_, _)
BitOr(a, b) ==
    IF a = 0 THEN b
    ELSE IF b = 0 THEN a
    ELSE (IF a % 2 = 1 \/ b % 2 = 1 THEN 1 ELSE 0) + 2 * BitOr(a \div 2, b \div 2)

RECURSIVE BitXor(_, _)
BitXor(a, b) ==
    IF a = 0 THEN b
    ELSE IF b = 0 THEN a
    ELSE ((a + b) % 2) + 2 * BitXor(a \div 2, b \div 2)

Shr(a, n) == a \div Pow2(n)
Shl8(a, n) == (a * Pow2(n)) % U8

----------------------------------------------------------------------------
(* Version                                                                 *)

Version == {"Nil", "Mac", "Dce", "Md5", "Random", "Sha1"}

VersionTag(v) ==
    CASE v = "Nil" -> 0
      [] v = "Mac" -> 1
      [] v = "Dce" -> 2
      [] v = "Md5" -> 3
      [] v = "Random" -> 4
      [] v = "Sha1" -> 5

----------------------------------------------------------------------------
(* Hex digit codec                                                         *)

BASE == 4
BASE_DIGIT == Pow2(BASE) - 1
HEX_DIGITS == <<48, 49, 50, 51, 52, 53, 54, 55, 56, 57, 97, 98, 99, 100, 101, 102>>

\* byte_to_hex with the nibbles in the other order.
byte_to_hex_swapped(byt, idx) ==
    HEX_DIGITS[BitAnd(Shr(byt, BASE * (1 - idx)), BASE_DIGIT) + 1]

\* byte_to_hex over an upper-case digit table.
byte_to_hex_upper(byt, idx) ==
    LET d == HEX_DIGITS[BitAnd(Shr(byt, BASE * idx), BASE_DIGIT) + 1]
    IN  IF d >= 97 THEN d - 32 ELSE d

byte_to_hex(byt, idx) ==
    HEX_DIGITS[BitAnd(Shr(byt, BASE * idx), BASE_DIGIT) + 1]

\* Result values.  Ok carries the value; an Err carries the ParseError's
\* fields, in declaration order, in args.  Panic is an abort of the call
\* (a failed unwrap or an out-of-range index).
Ok(val) == [kind |-> "Ok", args |-> <<>>, val |-> val]
Err(kind, args) == [kind |-> kind, args |-> args, val |-> <<>>]
Panic == [kind |-> "Panic", args |-> <<>>, val |-> <<>>]

InvalidLength(len) == Err("InvalidLength", <<len>>)
InvalidGroupLen(idx, len) == Err("InvalidGroupLen", <<idx, len>>)
InvalidByte(byte, pos) == Err("InvalidByte", <<byte, pos>>)

\* hex_digit with the upper-case arm missing its + 10.
hex_digit_upper_low(chr) ==
    IF chr \in 48..57 THEN chr - 48
    ELSE IF chr \in 97..102 THEN chr - 97 + 10
    ELSE IF chr \in 65..70 THEN chr - 65
    ELSE -1

\* One arm of the match in hex_to_byte: the digit's value, or -1 for the
\* catch-all arm.
hex_digit(chr) ==
    IF chr \in 48..57 THEN chr - 48
    ELSE IF chr \in 97..102 THEN chr - 97 + 10
    ELSE IF chr \in 65..70 THEN chr - 65 + 10
    ELSE -1

\* hex_to_byte reporting the right character at the left one's position.
hex_to_byte_left_pos(hex, cursor, error_offset) ==
    IF cursor >= Len(hex) THEN Panic
    ELSE LET l == hex[cursor + 1]
             left == hex_digit(l)
         IN  IF left = -1 THEN InvalidByte(l, cursor + error_offset)
             ELSE IF cursor + 1 >= Len(hex) THEN Panic
             ELSE LET r == hex[cursor + 2]
                      right == hex_digit(r)
                  IN  IF right = -1 THEN InvalidByte(r, cursor + error_offset)
                      ELSE Ok(left * 16 + right)

hex_to_byte(hex, cursor, error_offset) ==
    IF cursor >= Len(hex) THEN Panic
    ELSE LET l == hex[cursor + 1]
             left == hex_digit(l)
         IN  IF left = -1 THEN InvalidByte(l, cursor + error_offset)
             ELSE IF cursor + 1 >= Len(hex) THEN Panic
             ELSE LET r == hex[cursor + 2]
                      right == hex_digit(r)
                  IN  IF right = -1 THEN InvalidByte(r, cursor + 1 + error_offset)
                      ELSE Ok(left * 16 + right)

----------------------------------------------------------------------------
(* Binary layout engine                                                    *)

nil == [i \in 0..(UUID_SIZE - 1) |-> 0]

from_bytes(bytes) == bytes

\* The array literal [b0, ..., b15] as a value indexed from 0.
Bytes16(t) == [i \in 0..(UUID_SIZE - 1) |-> t[i + 1]]

is_version(d, version) == Shr(d[6], 4) = VersionTag(version)

is_variant(d) == BitAnd(d[8], 192) = 128

\* set_variant writing the marker into byte 6.
set_variant_byte6(d) == [d EXCEPT ![6] = BitOr(BitAnd(d[6], 63), 128)]

set_variant(d) == [d EXCEPT ![8] = BitOr(BitAnd(d[8], 63), 128)]

\* set_version writing the tag into the low nibble.
set_version_low(d, version) ==
    [d EXCEPT ![6] = BitOr(BitAnd(d[6], 240), VersionTag(version))]

\* set_version toggling the tag bits instead of overwriting them.
set_version_xor(d, version) ==
    [d EXCEPT ![6] = BitXor(d[6], Shl8(VersionTag(version), 4))]

set_version(d, version) ==
    [d EXCEPT ![6] = BitOr(BitAnd(d[6], 15), Shl8(VersionTag(version), 4))]

----------------------------------------------------------------------------
(* Text codec: render                                                      *)

to_str(d) ==
    << byte_to_hex(d[0], 1), byte_to_hex(d[0], 0),
       byte_to_hex(d[1], 1), byte_to_hex(d[1], 0),
       byte_to_hex(d[2], 1), byte_to_hex(d[2], 0),
       byte_to_hex(d[3], 1), byte_to_hex(d[3], 0),
       SEP,
       byte_to_hex(d[4], 1), byte_to_hex(d[4], 0),
       byte_to_hex(d[5], 1), byte_to_hex(d[5], 0),
       SEP,
       byte_to_hex(d[6], 1), byte_to_hex(d[6], 0),
       byte_to_hex(d[7], 1), byte_to_hex(d[7], 0),
       SEP,
       byte_to_hex(d[8], 1), byte_to_hex(d[8], 0),
       byte_to_hex(d[9], 1), byte_to_hex(d[9], 0),
       SEP,
       byte_to_hex(d[10], 1), byte_to_hex(d[10], 0),
       byte_to_hex(d[11], 1), byte_to_hex(d[11], 0),
       byte_to_hex(d[12], 1), byte_to_hex(d[12], 0),
       byte_to_hex(d[13], 1), byte_to_hex(d[13], 0),
       byte_to_hex(d[14], 1), byte_to_hex(d[14], 0),
       byte_to_hex(d[15], 1), byte_to_hex(d[15], 0) >>

----------------------------------------------------------------------------
(* Text codec: parse                                                       *)

\* str::split(SEP): the pieces between separators, empty pieces included;
\* a string without separator is one piece.
RECURSIVE SplitFrom(_, _, _, _)
SplitFrom(s, i, cur, acc) ==
    IF i > Len(s) THEN Append(acc, cur)
    ELSE IF s[i] = SEP THEN SplitFrom(s, i + 1, <<>>, Append(acc, cur))
    ELSE SplitFrom(s, i + 1, Append(cur, s[i]), acc)

split(s) == SplitFrom(s, 1, <<>>, <<>>)

\* slice::chunks(2): consecutive pieces of two elements, the last one
\* shorter when the length is odd.
chunks(s) ==
    [k \in 1..((Len(s) + 1) \div 2) |->
        SubSeq(s, 2 * k - 1, IF 2 * k <= Len(s) THEN 2 * k ELSE Len(s))]

\* The expected lengths of time_low, time_mid, time_hi_version, clock_seq
\* and node.
GROUP_LENS == <<8, 4, 4, 4, 12>>

\* MaybeUninit::<[u8; UUID_SIZE]>::uninit(): no byte written yet.
Uninit == -1
uninit == [i \in 0..(UUID_SIZE - 1) |-> Uninit]

\* The decoding loops: group idx (0-based), chunk j of it (1-based), cursor
\* the number of bytes written so far.  A write past the buffer is reported
\* as an abort.
RECURSIVE decode_groups(_, _, _, _, _)
decode_groups(groups, idx, j, cursor, uuid) ==
    IF idx >= Len(groups) THEN Ok(from_bytes(uuid))
    ELSE LET chunk == chunks(groups[idx + 1])
         IN  IF j > Len(chunk) THEN decode_groups(groups, idx + 1, 1, cursor, uuid)
             ELSE LET byte == hex_to_byte(chunk[j], 0, cursor * 2 + idx)
                  IN  IF byte.kind # "Ok" THEN byte
                      ELSE IF cursor >= UUID_SIZE THEN Panic
                      ELSE decode_groups(groups, idx, j + 1, cursor + 1,
                                         [uuid EXCEPT ![cursor] = byte.val])

\* take_groups without the length check of node.
RECURSIVE take_groups_unchecked_node(_, _)
take_groups_unchecked_node(pieces, k) ==
    IF k > Len(GROUP_LENS)
    THEN decode_groups(SubSeq(pieces, 1, Len(GROUP_LENS)), 0, 1, 0, uninit)
    ELSE IF k > Len(pieces) THEN Panic
    ELSE IF k < Len(GROUP_LENS) /\ Len(pieces[k]) # GROUP_LENS[k]
         THEN InvalidGroupLen(k, Len(pieces[k]))
    ELSE take_groups_unchecked_node(pieces, k + 1)

\* take_groups reporting the expected length in place of the actual one.
RECURSIVE take_groups_expected(_, _)
take_groups_expected(pieces, k) ==
    IF k > Len(GROUP_LENS)
    THEN decode_groups(SubSeq(pieces, 1, Len(GROUP_LENS)), 0, 1, 0, uninit)
    ELSE IF k > Len(pieces) THEN Panic
    ELSE IF Len(pieces[k]) # GROUP_LENS[k] THEN InvalidGroupLen(k, GROUP_LENS[k])
    ELSE take_groups_expected(pieces, k + 1)

\* The five input.next().unwrap() with their length checks, group k first
\* (1-based); then the decoding of the five groups.
RECURSIVE take_groups(_, _)
take_groups(pieces, k) ==
    IF k > Len(GROUP_LENS)
    THEN decode_groups(SubSeq(pieces, 1, Len(GROUP_LENS)), 0, 1, 0, uninit)
    ELSE IF k > Len(pieces) THEN Panic
    ELSE IF Len(pieces[k]) # GROUP_LENS[k] THEN InvalidGroupLen(k, Len(pieces[k]))
    ELSE take_groups(pieces, k + 1)

\* from_str_hyphenated decoding each group right after its length check.
RECURSIVE interleaved_groups(_, _, _, _)
interleaved_groups(pieces, k, cursor, uuid) ==
    IF k > Len(GROUP_LENS) THEN Ok(from_bytes(uuid))
    ELSE IF k > Len(pieces) THEN Panic
    ELSE IF Len(pieces[k]) # GROUP_LENS[k] THEN InvalidGroupLen(k, Len(pieces[k]))
    ELSE LET r == decode_groups(SubSeq(pieces, 1, k), k - 1, 1, cursor, uuid)
         IN  IF r.kind # "Ok" THEN r
             ELSE interleaved_groups(pieces, k + 1, cursor + GROUP_LENS[k] \div 2, r.val)

from_str_interleaved(input) == interleaved_groups(split(input), 1, 0, uninit)

from_str_hyphenated(input) == take_groups(split(input), 1)

\* The 16 hex_to_byte(input.as_bytes(), 2 * n, 0)? of the compact form, in
\* order from n.
RECURSIVE simple_from(_, _, _)
simple_from(input, n, uuid) ==
    IF n >= UUID_SIZE THEN Ok(from_bytes(uuid))
    ELSE LET byte == hex_to_byte(input, 2 * n, 0)
         IN  IF byte.kind # "Ok" THEN byte
             ELSE simple_from(input, n + 1, [uuid EXCEPT ![n] = byte.val])

from_str_simple(input) == simple_from(input, 0, uninit)

\* from_str taking every input of at least 36 bytes for the hyphenated form.
from_str_at_least(input) ==
    IF Len(input) >= Capacity THEN from_str_hyphenated(input)
    ELSE IF Len(input) = Capacity - 4 THEN from_str_simple(input)
    ELSE InvalidLength(Len(input))

from_str(input) ==
    IF Len(input) = Capacity THEN from_str_hyphenated(input)
    ELSE IF Len(input) = Capacity - 4 THEN from_str_simple(input)
    ELSE InvalidLength(Len(input))

parse_str(input) == from_str(input)

----------------------------------------------------------------------------
(* Wide machine integers                                                   *)

\* A u32, u64 or u128 is the sequence of its bytes, least significant
\* first; a u8 or u16 is a natural.
RECURSIVE ToLimbs(_, _)
ToLimbs(n, w) == IF w = 0 THEN <<>> ELSE <<n % U8>> \o ToLimbs(n \div U8, w - 1)

Limb(x, i) == IF i < Len(x) THEN x[i + 1] ELSE 0

\* a + b in the width of a: the wrapped sum, and whether it overflowed.
RECURSIVE AddFrom(_, _, _, _, _)
AddFrom(a, b, i, carry, acc) ==
    IF i >= Len(a) THEN [val |-> acc, overflow |-> carry # 0]
    ELSE LET t == Limb(a, i) + Limb(b, i) + carry
         IN  AddFrom(a, b, i + 1, t \div U8, Append(acc, t % U8))

AddWide(a, b) == AddFrom(a, b, 0, 0, <<>>)

\* a * b in the width of a: the wrapped product, and whether it overflowed.
RECURSIVE SumProducts(_, _, _, _)
SumProducts(a, b, k, i) ==
    IF i > k THEN 0 ELSE Limb(a, i) * Limb(b, k - i) + SumProducts(a, b, k, i + 1)

RECURSIVE MulFrom(_, _, _, _, _, _)
MulFrom(a, b, k, carry, acc, high) ==
    IF k >= 2 * Len(a) THEN [val |-> acc, overflow |-> high \/ carry # 0]
    ELSE LET t == SumProducts(a, b, k, 0) + carry
         IN  IF k < Len(a)
             THEN MulFrom(a, b, k + 1, t \div U8, Append(acc, t % U8), high)
             ELSE MulFrom(a, b, k + 1, t \div U8, acc, high \/ (t % U8) # 0)

MulWide(a, b) == MulFrom(a, b, 0, 0, <<>>, FALSE)

AndWide(a, b) == [i \in 1..Len(a) |-> BitAnd(a[i], Limb(b, i - 1))]

ShrWide(a, n) ==
    [i \in 1..Len(a) |->
        Shr(Limb(a, i - 1 + (n \div 8)), n % 8)
            + Shl8(Limb(a, i + (n \div 8)), 8 - (n % 8))]

\* The casts `as u32`, `as u16`, `as u8`.
AsU32(a) == SubSeq(a, 1, 4)
AsU16(a) == a[1] + U8 * a[2]
AsU8(a) == a[1]

----------------------------------------------------------------------------
(* Timestamp and the version-1 generator                                   *)

V1_NS_TICKS == <<0, 64, 129, 19, 210, 29, 178, 1>>

from_parts(ticks, counter) == [ticks |-> ticks, counter |-> counter]

\* The three u64 operations of from_unix on a Duration [secs, nanos]:
\* whether one of them overflows, and the value they wrap to.
from_unix_overflows(time) ==
    LET m == MulWide(time.secs, ToLimbs(10000000, 8))
        s == AddWide(V1_NS_TICKS, m.val)
        t == AddWide(s.val, ToLimbs(time.nanos \div 100, 8))
    IN  m.overflow \/ s.overflow \/ t.overflow

\* from_unix multiplying the nanoseconds by 100.
from_unix_times(time) ==
    LET m == MulWide(time.secs, ToLimbs(10000000, 8))
        s == AddWide(V1_NS_TICKS, m.val)
        t == AddWide(s.val, MulWide(ToLimbs(time.nanos, 8), ToLimbs(100, 8)).val)
    IN  from_parts(t.val, 0)

from_unix(time) ==
    LET m == MulWide(time.secs, ToLimbs(10000000, 8))
        s == AddWide(V1_NS_TICKS, m.val)
        t == AddWide(s.val, ToLimbs(time.nanos \div 100, 8))
    IN  from_parts(t.val, 0)

set_counter(timestamp, counter) == [timestamp EXCEPT !.counter = counter]

\* v1 keeping all 16 bits of the counter in the clock sequence.
v1_sixteen(timestamp, mac) ==
    LET time_low == AsU32(AndWide(timestamp.ticks, <<255, 255, 255, 255>>))
        time_mid == AsU16(AndWide(ShrWide(timestamp.ticks, 32), <<255, 255>>))
        time_high_and_version ==
            BitOr(AsU16(AndWide(ShrWide(timestamp.ticks, 48), <<255, 15>>)), Pow2(12))
    IN  from_bytes(Bytes16(<<
            AsU8(ShrWide(time_low, 24)),
            AsU8(ShrWide(time_low, 16)),
            AsU8(ShrWide(time_low, 8)),
            AsU8(time_low),
            Shr(time_mid, 8) % U8,
            time_mid % U8,
            Shr(time_high_and_version, 8) % U8,
            time_high_and_version % U8,
            Shr(timestamp.counter, 8) % U8,
            BitAnd(timestamp.counter, 255) % U8,
            mac[1], mac[2], mac[3], mac[4], mac[5], mac[6] >>))

\* v1 without the version bit in time_high_and_version.
v1_unversioned(timestamp, mac) ==
    LET time_low == AsU32(AndWide(timestamp.ticks, <<255, 255, 255, 255>>))
        time_mid == AsU16(AndWide(ShrWide(timestamp.ticks, 32), <<255, 255>>))
        time_high_and_version ==
            AsU16(AndWide(ShrWide(timestamp.ticks, 48), <<255, 15>>))
    IN  from_bytes(Bytes16(<<
            AsU8(ShrWide(time_low, 24)),
            AsU8(ShrWide(time_low, 16)),
            AsU8(ShrWide(time_low, 8)),
            AsU8(time_low),
            Shr(time_mid, 8) % U8,
            time_mid % U8,
            Shr(time_high_and_version, 8) % U8,
            time_high_and_version % U8,
            BitOr(Shr(BitAnd(timestamp.counter, 16128), 8) % U8, 128),
            BitAnd(timestamp.counter, 255) % U8,
            mac[1], mac[2], mac[3], mac[4], mac[5], mac[6] >>))

v1(timestamp, mac) ==
    LET time_low == AsU32(AndWide(timestamp.ticks, <<255, 255, 255, 255>>))
        time_mid == AsU16(AndWide(ShrWide(timestamp.ticks, 32), <<255, 255>>))
        time_high_and_version ==
            BitOr(AsU16(AndWide(ShrWide(timestamp.ticks, 48), <<255, 15>>)), Pow2(12))
    IN  from_bytes(Bytes16(<<
            AsU8(ShrWide(time_low, 24)),
            AsU8(ShrWide(time_low, 16)),
            AsU8(ShrWide(time_low, 8)),
            AsU8(time_low),
            Shr(time_mid, 8) % U8,
            time_mid % U8,
            Shr(time_high_and_version, 8) % U8,
            time_high_and_version % U8,
            BitOr(Shr(BitAnd(timestamp.counter, 16128), 8) % U8, 128),
            BitAnd(timestamp.counter, 255) % U8,
            mac[1], mac[2], mac[3], mac[4], mac[5], mac[6] >>))

----------------------------------------------------------------------------
(* Input samples                                                           *)

\* 16-byte values named in the source: the nil value, NAMESPACE_DNS, and
\* the values of the tests (feff6401-..., 60ecb7b6-...).
NAMESPACE_DNS ==
    Bytes16(<<107, 167, 184, 16, 157, 173, 17, 209, 128, 180, 0, 192, 79, 212, 48, 200>>)

TestBytes ==
    Bytes16(<<254, 255, 100, 1, 0, 255, 255, 253, 40, 20, 150, 125, 130, 140, 200, 99>>)

TestParsed ==
    Bytes16(<<96, 236, 183, 182, 186, 52, 90, 173, 169, 239, 144, 32, 177, 234, 33, 10>>)

Backgrounds == {nil, NAMESPACE_DNS, TestBytes}

\* Every byte value at every index, over each background.
UuidSamples ==
    { [bg EXCEPT ![p] = v] : bg \in Backgrounds, p \in 0..(UUID_SIZE - 1), v \in Byte }

\* The positions of the separators in the 36-character form, and the index
\* (0..31) of the hex digit at a non-separator position.
SepPositions == {8, 13, 18, 23}
DigitIndex(pos) == pos - Cardinality({q \in SepPositions : q < pos})

\* The value of nibble k (0..31) of a 16-byte value, high nibble first.
Nibble(b, k) == IF k % 2 = 0 THEN b[k \div 2] \div 16 ELSE b[k \div 2] % 16

\* The ASCII hex digit of a nibble, in upper or lower case.
DigitChar(n, upper) == IF n < 10 THEN 48 + n ELSE IF upper THEN 55 + n ELSE 87 + n

\* The text of b with digit k in upper case iff upper[k], hyphenated or
\* compact.
Spell(b, upper, hyphenated) ==
    IF hyphenated
    THEN [i \in 1..Capacity |->
            IF (i - 1) \in SepPositions THEN SEP
            ELSE DigitChar(Nibble(b, DigitIndex(i - 1)), upper[DigitIndex(i - 1)])]
    ELSE [i \in 1..(Capacity - 4) |-> DigitChar(Nibble(b, i - 1), upper[i - 1])]

Digits == 0..(2 * UUID_SIZE - 1)
CaseMasks ==
    { [k \in Digits |-> FALSE], [k \in Digits |-> TRUE],
      [k \in Digits |-> k % 2 = 0], [k \in Digits |-> k % 2 = 1],
      [k \in Digits |-> k % 3 = 0] }

Lower == [k \in Digits |-> FALSE]

\* Characters written over an input: the separator, the ends of the three
\* digit ranges and their neighbours, a NUL and a non-ASCII byte.
EditChars == {SEP, 0, 44, 47, 48, 57, 58, 64, 65, 70, 71, 96, 97, 102, 103, 195}

\* Characters and positions of repeated edits.
SeamChars == {SEP, 44, 103}
SeamPositions == {0, 1, 7, 8, 9, 13, 14, 18, 23, 24, 34, 35}

MaxEdits == 2
MaxLen == 38

\* s with at most n characters overwritten, at increasing seam positions
\* from position from on.
RECURSIVE SeamEdits(_, _, _)
SeamEdits(s, n, from) ==
    IF n = 0 THEN {s}
    ELSE {s} \cup UNION { SeamEdits([s EXCEPT ![p + 1] = c], n - 1, p + 1) :
                            p \in {q \in SeamPositions : q >= from /\ q < Len(s)},
                            c \in SeamChars }

\* s with one character overwritten, anywhere.
SingleEdits(s) == { [s EXCEPT ![p] = c] : p \in 1..Len(s), c \in EditChars }

\* s with the two characters of byte n (0..15) overwritten.
PairEdits(s, hyphenated) ==
    { [s EXCEPT ![pos + 1] = c1, ![pos + 2] = c2] :
        pos \in { IF hyphenated
                  THEN 2 * n + Cardinality({q \in SepPositions : q < 2 * n + Cardinality({r \in SepPositions : r < 2 * n})})
                  ELSE 2 * n : n \in 0..(UUID_SIZE - 1) },
        c1 \in EditChars, c2 \in EditChars }

\* s cut or repeated to length n.
Resize(s, n) == [i \in 1..n |-> s[((i - 1) % Len(s)) + 1]]

BaseTexts == { Spell(TestParsed, Lower, h) : h \in BOOLEAN }

ParseInputs ==
    { Spell(b, m, h) : b \in Backgrounds \cup {TestParsed}, m \in CaseMasks, h \in BOOLEAN }
    \cup UNION { SingleEdits(s) : s \in BaseTexts }
    \cup UNION { PairEdits(Spell(TestParsed, Lower, h), h) : h \in BOOLEAN }
    \cup UNION { SeamEdits(s, MaxEdits, 0) : s \in BaseTexts }
    \cup { Resize(e, n) : e \in UNION { SeamEdits(s, 1, 0) : s \in BaseTexts }, n \in 0..MaxLen }

----------------------------------------------------------------------------
(* Operations                                                              *)

NoResult == [kind |-> "None", args |-> <<>>, val |-> <<>>]
NoTimestamp == [ticks |-> <<>>, counter |-> 0]
NoDuration == [secs |-> <<>>, nanos |-> 0]

Threads == {"t1", "t2"}
\* A thread outside prng: nothing drawn, no identifier returned yet.
IdleThread == [pc |-> "idle", right |-> <<>>, left |-> <<>>, r |-> 0, l |-> 0, ids |-> <<>>]

\* Nothing done yet, by group of operations.
IdleCodec == data = nil /\ text = <<>> /\ result = NoResult /\ ver = "Nil"
IdleV1 == dur = NoDuration /\ ts = NoTimestamp /\ node = <<0, 0, 0, 0, 0, 0>> /\ calls = <<>>
IdleSerde == seq = <<>>
IdleV4 == rand = NoResult
IdlePrng == rng = 0 /\ th = [t \in Threads |-> IdleThread] /\ draws = <<>> /\ endian = "little"

\* A caller holds a 16-byte value.
InitBytes ==
    /\ data \in UuidSamples
    /\ text = <<>>
    /\ result = NoResult
    /\ op = "from_bytes"
    /\ ver = "Nil"
    /\ IdleV1 /\ IdleSerde /\ IdleV4 /\ IdlePrng

\* A caller holds a string to parse.
InitText ==
    /\ data = nil
    /\ text \in ParseInputs
    /\ result = NoResult
    /\ op = "input"
    /\ ver = "Nil"
    /\ IdleV1 /\ IdleSerde /\ IdleV4 /\ IdlePrng

\* uuid.to_str()
ToStr ==
    /\ op = "from_bytes"
    /\ text' = to_str(data)
    /\ op' = "to_str"
    /\ UNCHANGED <<data, result, ver>>
    /\ UNCHANGED <<v1_vars, serde_vars, v4_vars, prng_vars>>

\* Uuid::parse_str(text)
ParseStr ==
    /\ op \in {"to_str", "input"}
    /\ result' = parse_str(text)
    /\ op' = "parse_str"
    /\ UNCHANGED <<data, text, ver>>
    /\ UNCHANGED <<v1_vars, serde_vars, v4_vars, prng_vars>>

\* uuid = uuid.set_version(v)
SetVersion(v) ==
    /\ op \in {"from_bytes", "set_version", "set_variant"}
    /\ data' = set_version(data, v)
    /\ ver' = v
    /\ op' = "set_version"
    /\ UNCHANGED <<text, result>>
    /\ UNCHANGED <<v1_vars, serde_vars, v4_vars, prng_vars>>

\* uuid = uuid.set_variant()
SetVariant ==
    /\ op \in {"from_bytes", "set_version", "set_variant"}
    /\ data' = set_variant(data)
    /\ op' = "set_variant"
    /\ UNCHANGED <<text, result, ver>>
    /\ UNCHANGED <<v1_vars, serde_vars, v4_vars, prng_vars>>

\* Rendering a value and parsing the text back.
NextText == ToStr \/ ParseStr
SpecText == InitBytes /\ [][NextText]_vars

\* Parsing caller-supplied strings.
NextParse == ParseStr
SpecParse == InitText /\ [][NextParse]_vars

\* Stamping version and variant on a value.
NextStamp == (\E v \in Version : SetVersion(v)) \/ SetVariant
SpecStamp == InitBytes /\ [][NextStamp]_vars

----------------------------------------------------------------------------
(* Timestamps and v1: samples and operations                               *)

\* ticks: 0, the maximum, 0x0123456789ABCDEF, 0xFEDCBA9876543210, 1 << 60,
\* 0x0FFF_FFFF_FFFF_FFFF, the value of the test and 0x00FF00FF00FF00FF.
TickSamples ==
    { <<0, 0, 0, 0, 0, 0, 0, 0>>,
      <<255, 255, 255, 255, 255, 255, 255, 255>>,
      <<239, 205, 171, 137, 103, 69, 35, 1>>,
      <<16, 50, 84, 118, 152, 186, 220, 254>>,
      <<0, 0, 0, 0, 0, 0, 0, 16>>,
      <<255, 255, 255, 255, 255, 255, 255, 15>>,
      <<52, 105, 97, 32, 162, 75, 231, 1>>,
      <<255, 0, 255, 0, 255, 0, 255, 0>> }

\* counters: 0, 1, 0x3F5A, 0x4000, 0xC0FF, 0xFFFF.
CounterSamples == {0, 1, 16218, 16384, 49407, 65535}

NodeSamples == { <<1, 2, 3, 4, 5, 6>>, <<255, 0, 171, 205, 239, 16>> }

\* seconds: 0, 1, 1496854535 (the test), 2^32 - 1, 2^32, 1832455114570 (the
\* last second whose ticks fit in a u64), 1832455114571, 1844674407370 (the
\* last whose product fits), 1844674407371, and the maximum.
SecSamples ==
    { <<0, 0, 0, 0, 0, 0, 0, 0>>,
      <<1, 0, 0, 0, 0, 0, 0, 0>>,
      <<7, 48, 56, 89, 0, 0, 0, 0>>,
      <<255, 255, 255, 255, 0, 0, 0, 0>>,
      <<0, 0, 0, 0, 1, 0, 0, 0>>,
      <<74, 15, 214, 166, 170, 1, 0, 0>>,
      <<75, 15, 214, 166, 170, 1, 0, 0>>,
      <<202, 171, 41, 127, 173, 1, 0, 0>>,
      <<203, 171, 41, 127, 173, 1, 0, 0>>,
      <<255, 255, 255, 255, 255, 255, 255, 255>> }

NanoSamples == {0, 99, 100, 812946000, 955161599, 955161600, 999999999}

DurationSamples == { [secs |-> x, nanos |-> n] : x \in SecSamples, n \in NanoSamples }

MaxCalls == 2

InitV1 ==
    /\ IdleCodec
    /\ op = "start"
    /\ dur = NoDuration
    /\ ts = NoTimestamp
    /\ node \in NodeSamples
    /\ calls = <<>>
    /\ IdleSerde /\ IdleV4 /\ IdlePrng

\* ts = Timestamp::from_parts(ticks, counter)
FromParts(ticks, counter) ==
    /\ op = "start"
    /\ ts' = from_parts(ticks, counter)
    /\ op' = "from_parts"
    /\ UNCHANGED <<dur, node, calls>>
    /\ UNCHANGED <<codec_vars, serde_vars, v4_vars, prng_vars>>

\* ts = Timestamp::from_unix(time).  An overflow of the u64 arithmetic
\* panics in a build with overflow checks and wraps in one without.
FromUnix(time, overflow_checks) ==
    /\ op = "start"
    /\ dur' = time
    /\ IF overflow_checks /\ from_unix_overflows(time)
       THEN op' = "from_unix_panic" /\ ts' = ts
       ELSE op' = "from_unix" /\ ts' = from_unix(time)
    /\ UNCHANGED <<node, calls>>
    /\ UNCHANGED <<codec_vars, serde_vars, v4_vars, prng_vars>>

\* ts = ts.set_counter(counter)
SetCounter(counter) ==
    /\ op \in {"from_parts", "from_unix", "set_counter", "v1"}
    /\ Len(calls) < MaxCalls
    /\ ts' = set_counter(ts, counter)
    /\ op' = "set_counter"
    /\ UNCHANGED <<dur, node, calls>>
    /\ UNCHANGED <<codec_vars, serde_vars, v4_vars, prng_vars>>

\* uuid = Uuid::v1(ts, node)
V1 ==
    /\ op \in {"from_parts", "from_unix", "set_counter", "v1"}
    /\ Len(calls) < MaxCalls
    /\ data' = v1(ts, node)
    /\ calls' = Append(calls, [ts |-> ts, node |-> node, uuid |-> v1(ts, node)])
    /\ op' = "v1"
    /\ UNCHANGED <<text, result, ver, dur, ts, node>>
    /\ UNCHANGED <<serde_vars, v4_vars, prng_vars>>

NextV1 ==
    \/ \E ticks \in TickSamples, counter \in CounterSamples : FromParts(ticks, counter)
    \/ \E time \in DurationSamples, overflow_checks \in BOOLEAN : FromUnix(time, overflow_checks)
    \/ \E counter \in CounterSamples : SetCounter(counter)
    \/ V1
SpecV1 == InitV1 /\ [][NextV1]_vars

----------------------------------------------------------------------------
(* Vocabulary of the properties, stated without the operators above        *)

IsHexChar(c) == c \in (48..57) \cup (97..102) \cup (65..70)

DigitValue(c) ==
    IF c \in 48..57 THEN c - 48 ELSE IF c \in 97..102 THEN c - 87 ELSE c - 55

Min(S) == CHOOSE x \in S : \A y \in S : x <= y

\* The positions (from 0) of the hyphens of s.
Hyphens(s) == {i \in 0..(Len(s) - 1) : s[i + 1] = 45}

\* The hyphen-separated groups of s, numbered from 1: how many there are,
\* and where group k starts and ends (end exclusive).
NumGroups(s) == Cardinality(Hyphens(s)) + 1
GroupEnd(s, k) ==
    IF k <= Cardinality(Hyphens(s))
    THEN CHOOSE q \in Hyphens(s) : Cardinality({r \in Hyphens(s) : r < q}) = k - 1
    ELSE Len(s)
GroupStart(s, k) == IF k = 1 THEN 0 ELSE GroupEnd(s, k - 1) + 1
GroupLength(s, k) == GroupEnd(s, k) - GroupStart(s, k)

ExpectedLen == <<8, 4, 4, 4, 12>>

\* The groups among the first five that are missing or of the wrong length.
WrongGroups(s) ==
    {k \in 1..5 : k > NumGroups(s) \/ GroupLength(s, k) # ExpectedLen[k]}

\* s has the shape of the hyphenated form: hyphens at 8, 13, 18, 23 only.
WellGrouped(s) == Len(s) = 36 /\ Hyphens(s) = {8, 13, 18, 23}

\* The positions of the characters of s that are no hex digit, the
\* separators of the hyphenated form aside.  The compact form has no
\* separator: a hyphen in it is one more invalid character.
BadPositions(s) ==
    {i \in 0..(Len(s) - 1) :
        /\ ~IsHexChar(s[i + 1])
        /\ ~(WellGrouped(s) /\ i \in {8, 13, 18, 23})}

\* s spells 32 hex digits, compact or hyphenated, and the value they spell.
IsSpelling(s) == (Len(s) = 32 \/ WellGrouped(s)) /\ BadPositions(s) = {}
DigitAt(s, k) ==
    IF Len(s) = 32 THEN s[k + 1]
    ELSE s[k + 1 + (IF k >= 8 THEN 1 ELSE 0) + (IF k >= 12 THEN 1 ELSE 0)
                 + (IF k >= 16 THEN 1 ELSE 0) + (IF k >= 20 THEN 1 ELSE 0)]
SpelledValue(s) ==
    [n \in 0..15 |-> DigitValue(DigitAt(s, 2 * n)) * 16 + DigitValue(DigitAt(s, 2 * n + 1))]

----------------------------------------------------------------------------
(* Properties                                                              *)

\* C1: round trip.  For every 16-byte value b, parsing the text that to_str
\* renders for Uuid::from_bytes(b) succeeds and returns the bytes b.
C1_RoundTrip ==
    (op = "parse_str") => (result.kind = "Ok" /\ result.val = data)

C1_Witness ==
    /\ op = "parse_str"
    /\ data = [TestBytes EXCEPT ![6] = 171]
    /\ result.kind = "Ok"
    /\ result.val[6] = 171

\* C2: an input whose length is neither 36 nor 32 fails with
\* InvalidLength(n), n its length, whatever its characters: no group error
\* and no invalid-byte error is returned for it.
C2_InvalidLength ==
    (op = "parse_str" /\ Len(text) \notin {36, 32})
        => (result.kind = "InvalidLength" /\ result.args = <<Len(text)>>)

C2_Witness ==
    /\ op = "parse_str"
    /\ Len(text) = 37
    /\ ~IsHexChar(text[1])
    /\ NumGroups(text) = 5
    /\ result.kind = "InvalidLength"
    /\ result.args = <<37>>

\* C3: for an input of length 32, and for an input of length 36 whose
\* groups have lengths 8,4,4,4,12, that holds an invalid character, the
\* parse fails with InvalidByte(c, i), i the smallest position of an invalid
\* character counted from 0 in the whole input (hyphens included), c the
\* byte there.
C3_FirstInvalidByte ==
    (/\ op = "parse_str"
     /\ Len(text) = 32 \/ WellGrouped(text)
     /\ BadPositions(text) # {})
        => (/\ result.kind = "InvalidByte"
            /\ result.args = <<text[Min(BadPositions(text)) + 1], Min(BadPositions(text))>>)

C3_Witness ==
    /\ op = "parse_str"
    /\ WellGrouped(text)
    /\ BadPositions(text) = {21, 22}
    /\ result.kind = "InvalidByte"
    /\ result.args[2] = 21

\* C4: for a 36-character input the group lengths are checked left to right
\* against 8,4,4,4,12 before any hex digit is decoded: when a group is
\* wrong the parse fails with the group-length error naming the first wrong
\* group (from 1), also when an invalid character stands before that group;
\* when no group is wrong no group-length error is returned.
C4_GroupsFirst ==
    (op = "parse_str" /\ Len(text) = 36)
        => IF WrongGroups(text) # {}
           THEN /\ result.kind = "InvalidGroupLen"
                /\ result.args[1] = Min(WrongGroups(text))
           ELSE result.kind # "InvalidGroupLen"

C4_Witness ==
    /\ op = "parse_str"
    /\ Len(text) = 36
    /\ WrongGroups(text) # {}
    /\ Min(WrongGroups(text)) = 3
    /\ \E i \in 0..7 : ~IsHexChar(text[i + 1])
    /\ result.kind = "InvalidGroupLen"
    /\ result.args[1] = 3

\* C5: parse_str has a closed set of outcomes for every input: Ok with all
\* 16 bytes decoded, or one of InvalidLength, InvalidGroupLen, InvalidByte;
\* it never aborts on a missing group or on a one-character chunk, and never
\* returns a buffer with an unwritten byte.
C5_ClosedOutcomes ==
    (op = "parse_str")
        => \/ /\ result.kind = "Ok"
              /\ DOMAIN result.val = 0..15
              /\ \A i \in 0..15 : result.val[i] \in 0..255
           \/ /\ result.kind \in {"InvalidLength", "InvalidGroupLen", "InvalidByte"}
              /\ result.val = <<>>

C5_Witness ==
    /\ op = "parse_str"
    /\ Len(text) = 36
    /\ NumGroups(text) < 5
    /\ result.kind = "InvalidGroupLen"

C7_Canonical ==
    (op = "to_str")
        => /\ Len(text) = 36
           /\ \A i \in 0..35 :
                IF i \in {8, 13, 18, 23} THEN text[i + 1] = 45
                ELSE /\ text[i + 1] = DigitChar(Nibble(data, DigitIndex(i)), FALSE)
                     /\ text[i + 1] \in (48..57) \cup (97..102)

C7_Witness ==
    /\ op = "to_str"
    /\ data = [TestBytes EXCEPT ![6] = 171]
    /\ text[15] = 97
    /\ text[16] = 98

\* C8: the parsed value depends only on the hex digit values: every
\* upper/lower/mixed-case spelling of 32 hex digits, compact or with
\* hyphens at 8, 13, 18, 23, parses successfully to the 16 bytes the digits
\* spell.
C8_CaseAndForm ==
    (op = "parse_str" /\ IsSpelling(text))
        => (result.kind = "Ok" /\ result.val = SpelledValue(text))

C8_Witness ==
    /\ op = "parse_str"
    /\ Len(text) = 32
    /\ IsSpelling(text)
    /\ \E i, j \in 1..32 : text[i] \in 65..70 /\ text[j] \in 97..102
    /\ result.kind = "Ok"
    /\ result.val = TestParsed

\* C9: set_version changes at most the high nibble of byte 6, set_variant
\* at most the top two bits of byte 8; every other bit of the value is
\* unchanged.
C9_Frame ==
    [][ /\ (op' = "set_version")
            => /\ \A i \in 0..15 : i # 6 => data'[i] = data[i]
               /\ data'[6] % 16 = data[6] % 16
        /\ (op' = "set_variant")
            => /\ \A i \in 0..15 : i # 8 => data'[i] = data[i]
               /\ data'[8] % 64 = data[8] % 64 ]_vars

C9_Witness ==
    /\ op = "set_version"
    /\ ver = "Random"
    /\ data = [TestBytes EXCEPT ![6] = 79]

\* C10: set_version(v) applied to the result of set_version(v), and
\* set_variant applied to the result of set_variant, change nothing; hence
\* stamping a value that already has the variant bits and the version
\* nibble of v changes nothing.
C10_Idempotent ==
    [][ /\ (op = "set_version" /\ op' = "set_version" /\ ver' = ver) => data' = data
        /\ (op = "set_variant" /\ op' = "set_variant") => data' = data
        /\ (op' = "set_variant" /\ data[8] \div 64 = 2) => data' = data
        /\ (op' = "set_version" /\ data[6] \div 16 = VersionTag(ver')) => data' = data ]_vars

C10_Witness ==
    /\ op = "set_version"
    /\ ver = "Random"
    /\ data = [TestBytes EXCEPT ![6] = 79, ![8] = 168]
    /\ set_version(set_variant(data), "Random") = data

\* C11: version isolation.  set_version(v) leaves the result of is_variant
\* as it was, and set_variant leaves the result of is_version(w) as it was,
\* for every Version w.
C11_Isolation ==
    [][ /\ (op' = "set_version") => (is_variant(data') <=> is_variant(data))
        /\ (op' = "set_variant")
            => \A w \in Version : is_version(data', w) <=> is_version(data, w) ]_vars

C11_Witness ==
    /\ op = "set_variant"
    /\ ver = "Sha1"
    /\ is_version(data, "Sha1")
    /\ is_variant(data)
    /\ data = [NAMESPACE_DNS EXCEPT ![6] = 81, ![8] = 191]

----------------------------------------------------------------------------
(* Vocabulary of the timestamp properties: exact (unbounded) arithmetic    *)

\* An exact natural is the sequence of its 8 digits in base 10000, least
\* significant first (enough for every number below 10^32).
DecZero == <<0, 0, 0, 0, 0, 0, 0, 0>>

\* d * m + c, for small m and c.
RECURSIVE DecMulAddFrom(_, _, _, _, _)
DecMulAddFrom(d, m, carry, i, acc) ==
    IF i > Len(d) THEN acc
    ELSE LET t == d[i] * m + carry
         IN  DecMulAddFrom(d, m, t \div 10000, i + 1, Append(acc, t % 10000))

DecMulAdd(d, m, c) == DecMulAddFrom(d, m, c, 1, <<>>)

RECURSIVE DecAddFrom(_, _, _, _, _)
DecAddFrom(a, b, carry, i, acc) ==
    IF i > Len(a) THEN acc
    ELSE LET t == a[i] + b[i] + carry
         IN  DecAddFrom(a, b, t \div 10000, i + 1, Append(acc, t % 10000))

DecAdd(a, b) == DecAddFrom(a, b, 0, 1, <<>>)

RECURSIVE DecLessFrom(_, _, _)
DecLessFrom(a, b, i) ==
    IF i = 0 THEN FALSE
    ELSE IF a[i] # b[i] THEN a[i] < b[i]
    ELSE DecLessFrom(a, b, i - 1)

DecLess(a, b) == DecLessFrom(a, b, Len(a))

\* The exact value of a u64 given by its bytes.
RECURSIVE ToDecFrom(_, _, _)
ToDecFrom(x, i, acc) ==
    IF i = 0 THEN acc ELSE ToDecFrom(x, i - 1, DecMulAdd(acc, 256, x[i]))

ToDec(x) == ToDecFrom(x, Len(x), DecZero)

\* 122192928000000000, the 100 ns intervals from 1582-10-15 to 1970-01-01,
\* and 2^64 = 18446744073709551616.
EpochTicks == <<0, 0, 9280, 2192, 12, 0, 0, 0>>
TwoTo64 == <<1616, 955, 737, 6744, 1844, 0, 0, 0>>

\* EpochTicks + secs * 10,000,000 + floor(nanos / 100), exactly.
ExactTicks(time) ==
    DecAdd(DecAdd(EpochTicks,
                  DecMulAdd(<<0>> \o SubSeq(ToDec(time.secs), 1, 7), 1000, 0)),
           DecMulAdd(DecZero, 1, time.nanos \div 100))

\* 1496854535 s 812946000 ns, and "20616934-4ba2-11e7-8000-010203040506".
TestDuration == [secs |-> <<7, 48, 56, 89, 0, 0, 0, 0>>, nanos |-> 812946000]
TestV1Text == <<50, 48, 54, 49, 54, 57, 51, 52, 45, 52, 98, 97, 50, 45, 49, 49, 101, 55, 45, 56, 48, 48, 48, 45, 48, 49, 48, 50, 48, 51, 48, 52, 48, 53, 48, 54>>

\* The pairs of v1 calls made with the same ticks and the same node.
SameTimeCalls ==
    {p \in (1..Len(calls)) \X (1..Len(calls)) :
        /\ p[1] < p[2]
        /\ calls[p[1]].ts.ticks = calls[p[2]].ts.ticks
        /\ calls[p[1]].node = calls[p[2]].node}

\* C12 (as stated): for fixed ticks and node, any two different counter
\* values yield two different identifiers.
C12_AnyCountersDiffer ==
    \A p \in SameTimeCalls :
        calls[p[1]].ts.counter # calls[p[2]].ts.counter
            => calls[p[1]].uuid # calls[p[2]].uuid

\* C12 (amended): for fixed ticks and node, two counter values yield
\* different identifiers exactly when they differ in their low 14 bits
\* (counter 1 differs from counter 0); counters that agree in their low 14
\* bits yield the same identifier.
C12_Low14BitsDiffer ==
    \A p \in SameTimeCalls :
        (calls[p[1]].ts.counter % 16384 # calls[p[2]].ts.counter % 16384)
            <=> (calls[p[1]].uuid # calls[p[2]].uuid)

C12_Witness ==
    /\ Len(calls) = 2
    /\ calls[1].ts.ticks = calls[2].ts.ticks
    /\ calls[1].ts.counter = 0
    /\ calls[2].ts.counter = 1
    /\ calls[1].uuid # calls[2].uuid
    /\ calls[2].uuid[9] = 1

\* C13 (as stated): from_unix(d) yields counter 0 and ticks = 0x01B21DD213814000
\* + secs * 10,000,000 + floor(nanos / 100) for every Duration d, never
\* exceeding the u64 range.
C13_EveryDuration ==
    (op \in {"from_unix", "from_unix_panic"})
        => /\ op = "from_unix"
           /\ ts.counter = 0
           /\ ToDec(ts.ticks) = ExactTicks(dur)

\* C13 (amended): from_unix(d) yields counter 0 and ticks = 0x01B21DD213814000
\* + secs * 10,000,000 + floor(nanos / 100) for every Duration d for which
\* this number is below 2^64, and only for those does the call neither
\* panic nor wrap; for 1496854535 s 812946000 ns and node [1,2,3,4,5,6], v1
\* renders as "20616934-4ba2-11e7-8000-010203040506".
C13_FromUnix ==
    /\ (op = "from_unix" /\ DecLess(ExactTicks(dur), TwoTo64))
        => (ts.counter = 0 /\ ToDec(ts.ticks) = ExactTicks(dur))
    /\ (op = "from_unix_panic") => ~DecLess(ExactTicks(dur), TwoTo64)
    /\ (op = "from_unix" /\ ~DecLess(ExactTicks(dur), TwoTo64))
        => ToDec(ts.ticks) # ExactTicks(dur)
    /\ (op = "v1" /\ dur = TestDuration /\ ts.counter = 0 /\ node = <<1, 2, 3, 4, 5, 6>>)
        => to_str(data) = TestV1Text

C13_Witness ==
    /\ op = "from_unix"
    /\ dur = [secs |-> <<74, 15, 214, 166, 170, 1, 0, 0>>, nanos |-> 955161599]
    /\ ts.ticks = <<255, 255, 255, 255, 255, 255, 255, 255>>
    /\ ts.counter = 0

\* C16: for every ticks, counter and node, v1 returns bytes 0-3 = ticks bits
\* 0..31 big-endian, bytes 4-5 = ticks bits 32..47 big-endian, bytes 6-7 =
\* 0x1000 OR ticks bits 48..59 big-endian, byte 8 = 0x80 OR counter bits
\* 8..13, byte 9 = counter bits 0..7, bytes 10-15 = node verbatim; the result
\* satisfies is_version(Mac), no other version, and is_variant().
C16_Layout ==
    (op = "v1")
        => /\ \A i \in 0..3 : data[i] = ts.ticks[4 - i]
           /\ data[4] = ts.ticks[6]
           /\ data[5] = ts.ticks[5]
           /\ data[6] = 16 + (ts.ticks[8] % 16)
           /\ data[7] = ts.ticks[7]
           /\ data[8] = 128 + ((ts.counter \div 256) % 64)
           /\ data[9] = ts.counter % 256
           /\ \A i \in 10..15 : data[i] = node[i - 9]
           /\ \A w \in Version : is_version(data, w) <=> (w = "Mac")
           /\ is_variant(data)

C16_Witness ==
    /\ op = "v1"
    /\ ts = [ticks |-> <<16, 50, 84, 118, 152, 186, 220, 254>>, counter |-> 65535]
    /\ data[6] = 30
    /\ data[8] = 191
    /\ is_version(data, "Mac")
    /\ is_variant(data)

----------------------------------------------------------------------------
(* Binary (non-human-readable) serde form (src/src/serde.rs)                *)

\* What next_element() yields for an element the format cannot read as a u8.
NotU8 == 256

invalid_length(len) == Err("invalid_length", <<len>>)

\* Serialize, not human readable: a tuple of the UUID_SIZE bytes in order.
serialize(d) == [i \in 1..UUID_SIZE |-> d[i - 1]]

\* BytesVisitor::visit_seq: sixteen times next_element(); `?` returns the
\* format's error, None returns invalid_length(k); after the sixteenth
\* element the value is built, without a further next_element().
RECURSIVE visit_seq_from(_, _, _)
visit_seq_from(elements, k, bytes) ==
    IF k = UUID_SIZE THEN Ok(from_bytes(Bytes16(bytes)))
    ELSE IF k >= Len(elements) THEN invalid_length(k)
    ELSE IF elements[k + 1] \notin Byte THEN Err("custom", <<k>>)
    ELSE visit_seq_from(elements, k + 1, Append(bytes, elements[k + 1]))

visit_seq(elements) == visit_seq_from(elements, 0, <<>>)

\* Deserialize, not human readable: deserialize_tuple(UUID_SIZE, BytesVisitor).
deserialize(elements) == visit_seq(elements)

\* The longest sequence handed to the decoder.
MaxSeqLen == 18

SeqBases ==
    { [i \in 1..MaxSeqLen |-> i],
      [i \in 1..MaxSeqLen |-> 0],
      [i \in 1..MaxSeqLen |-> 256 - i],
      [i \in 1..MaxSeqLen |-> IF i = 9 THEN NotU8 ELSE 16 * i] }

\* Every prefix of every base, the empty sequence included.
SeqSamples == { SubSeq(b, 1, n) : b \in SeqBases, n \in 0..MaxSeqLen }

InitSerde ==
    /\ data \in Backgrounds
    /\ seq \in SeqSamples
    /\ text = <<>>
    /\ result = NoResult
    /\ ver = "Nil"
    /\ op = "start"
    /\ IdleV1 /\ IdleV4 /\ IdlePrng

Serialize ==
    /\ op = "start"
    /\ seq' = serialize(data)
    /\ op' = "serialize"
    /\ UNCHANGED <<data, text, result, ver, v1_vars, v4_vars, prng_vars>>

Deserialize ==
    /\ op \in {"start", "serialize"}
    /\ result' = deserialize(seq)
    /\ data' = IF result'.kind = "Ok" THEN result'.val ELSE data
    /\ op' = "deserialize"
    /\ UNCHANGED <<text, ver, seq, v1_vars, v4_vars, prng_vars>>

NextSerde == Serialize \/ Deserialize
SpecSerde == InitSerde /\ [][NextSerde]_vars

\* C14: binary decoding accepts a byte sequence if and only if it has exactly
\* 16 elements: fewer than 16 is rejected with an invalid-length error, more
\* than 16 is rejected as well, and on success the 16 bytes are taken
\* verbatim in order.
C14_ExactlySixteen ==
    (op = "deserialize" /\ \A i \in 1..Len(seq) : seq[i] \in Byte)
        => /\ (result.kind = "Ok") <=> (Len(seq) = 16)
           /\ (Len(seq) < 16) => (result.kind = "invalid_length")
           /\ (result.kind = "Ok") => \A i \in 0..15 : result.val[i] = seq[i + 1]

----------------------------------------------------------------------------
(* The version-4 generator over the OS random source                       *)

\* v4 that goes on with the zeroed buffer when the source fails.
v4_zeroed(outcome) ==
    LET bytes == IF outcome.kind = "Ok" THEN outcome.val ELSE [i \in 0..(UUID_SIZE - 1) |-> 0]
    IN  Ok(set_version(set_variant(from_bytes(bytes)), "Random"))

\* Uuid::v4, given what getrandom::getrandom did with the buffer: Ok with
\* the buffer filled, or an error.
v4(outcome) ==
    IF outcome.kind # "Ok" THEN Panic
    ELSE Ok(set_version(set_variant(from_bytes(outcome.val)), "Random"))

\* getrandom fills the buffer with any bytes, or fails with an error code.
GetrandomOutcomes ==
    { Ok(b) : b \in UuidSamples } \cup { Err("getrandom", <<c>>) : c \in {"UNSUPPORTED", "UNEXPECTED"} }

InitV4 ==
    /\ IdleCodec /\ IdleV1 /\ IdleSerde /\ IdleV4 /\ IdlePrng
    /\ op = "start"

V4(outcome) ==
    /\ op = "start"
    /\ rand' = outcome
    /\ result' = v4(outcome)
    /\ data' = IF result'.kind = "Ok" THEN result'.val ELSE data
    /\ op' = "v4"
    /\ UNCHANGED <<text, ver, v1_vars, serde_vars, prng_vars>>

NextV4 == \E outcome \in GetrandomOutcomes : V4(outcome)
SpecV4 == InitV4 /\ [][NextV4]_vars

\* C15: v4 has exactly two outcomes.  If the OS random source reports
\* failure the call panics and returns no identifier; otherwise, whatever 16
\* bytes were delivered, the result satisfies is_variant() and
\* is_version(Random) and no other version, and equals the delivered bytes
\* except in the high nibble of byte 6 and the top two bits of byte 8.
C15_TwoOutcomes ==
    (op = "v4")
        => /\ (rand.kind # "Ok") => (result.kind = "Panic" /\ result.val = <<>>)
           /\ (rand.kind = "Ok")
                => /\ result.kind = "Ok"
                   /\ is_variant(result.val)
                   /\ \A w \in Version : is_version(result.val, w) <=> (w = "Random")
                   /\ \A i \in (0..15) \ {6, 8} : result.val[i] = rand.val[i]
                   /\ result.val[6] % 16 = rand.val[6] % 16
                   /\ result.val[8] % 64 = rand.val[8] % 64

C15_Witness ==
    /\ op = "v4"
    /\ rand = Ok([NAMESPACE_DNS EXCEPT ![6] = 255])
    /\ result.kind = "Ok"
    /\ result.val = [NAMESPACE_DNS EXCEPT ![6] = 79]
    /\ data = result.val

----------------------------------------------------------------------------
(* The version-4 generator over the process-wide fast generator            *)

\* static RANDOM: wy::AtomicRandom = wy::AtomicRandom::new(9).
SEED == 9

\* AtomicRandom::gen: one atomic read-modify-write of the state word; the
\* value drawn is a function of the new state.  The state word is modelled
\* as a counter.
gen(state) == [state |-> state + 1, value |-> ToLimbs(state + 1, 8)]

\* u128::to_ne_bytes: the bytes of x (least significant first) in the order
\* of the target.
to_ne_bytes(x, order) ==
    IF order = "little" THEN x ELSE [i \in 1..Len(x) |-> x[Len(x) + 1 - i]]

\* prng with both halves taken from the first draw.
prng_one_draw(right, left, order) ==
    set_version(set_variant(from_bytes(Bytes16(to_ne_bytes(right \o right, order)))),
                "Random")

\* Uuid::prng once both values are drawn: (left << 64) | right as u128,
\* its native bytes, then the stamps.
prng(right, left, order) ==
    set_version(set_variant(from_bytes(Bytes16(to_ne_bytes(right \o left, order)))),
                "Random")

\* The number of prng calls a thread makes.
MaxPrngCalls == 2

InitPrng ==
    /\ IdleCodec /\ IdleV1 /\ IdleSerde /\ IdleV4
    /\ rng = SEED
    /\ th = [t \in Threads |-> IdleThread]
    /\ draws = <<>>
    /\ endian \in {"little", "big"}
    /\ op = "start"

\* Thread t enters prng and draws `right`.
DrawRight(t) ==
    /\ th[t].pc = "idle"
    /\ Len(th[t].ids) < MaxPrngCalls
    /\ LET g == gen(rng)
       IN  /\ rng' = g.state
           /\ draws' = Append(draws, [by |-> t, state |-> rng, value |-> g.value])
           /\ th' = [th EXCEPT ![t].pc = "left", ![t].right = g.value,
                               ![t].r = Len(draws) + 1]
    /\ UNCHANGED <<codec_vars, op, v1_vars, serde_vars, v4_vars, endian>>

\* Thread t draws `left`.
DrawLeft(t) ==
    /\ th[t].pc = "left"
    /\ LET g == gen(rng)
       IN  /\ rng' = g.state
           /\ draws' = Append(draws, [by |-> t, state |-> rng, value |-> g.value])
           /\ th' = [th EXCEPT ![t].pc = "build", ![t].left = g.value,
                               ![t].l = Len(draws) + 1]
    /\ UNCHANGED <<codec_vars, op, v1_vars, serde_vars, v4_vars, endian>>

\* Thread t builds the identifier and returns it.
Return(t) ==
    /\ th[t].pc = "build"
    /\ LET uuid == prng(th[t].right, th[t].left, endian)
       IN  /\ data' = uuid
           /\ th' = [th EXCEPT ![t].pc = "idle",
                               ![t].ids = Append(@, [uuid |-> uuid, r |-> th[t].r, l |-> th[t].l])]
    /\ op' = "prng"
    /\ UNCHANGED <<text, result, ver, v1_vars, serde_vars, v4_vars, rng, draws, endian>>

NextPrng == \E t \in Threads : DrawRight(t) \/ DrawLeft(t) \/ Return(t)
SpecPrng == InitPrng /\ [][NextPrng]_vars

\* The prng calls that have returned: thread and number of the call.
Returned == UNION { { <<t, k>> : k \in 1..Len(th[t].ids) } : t \in Threads }

IdOf(c) == th[c[1]].ids[c[2]]

\* Byte i, in memory order, of the 128-bit number whose low half is `right`
\* and whose high half is `left`.
MemoryByte(right, left, order, i) ==
    IF order = "little"
    THEN (IF i < 8 THEN right[i + 1] ELSE left[i - 7])
    ELSE (IF i < 8 THEN left[8 - i] ELSE right[16 - i])

\* uuid is that number's bytes with the Random version and the variant put in.
BuiltFrom(uuid, right, left, order) ==
    /\ \A i \in (0..15) \ {6, 8} : uuid[i] = MemoryByte(right, left, order, i)
    /\ uuid[6] = 64 + (MemoryByte(right, left, order, 6) % 16)
    /\ uuid[8] = 128 + (MemoryByte(right, left, order, 8) % 64)

\* C17: when several threads call prng() concurrently, under every
\* interleaving of the two draws each call makes, no two draws (within a
\* call or across threads) consume the same generator state, no state update
\* is lost (the state word has advanced once per draw), and every returned
\* identifier is built from the two draws of its own call, which no other
\* call uses.
C17_AtomicDraws ==
    /\ \A i, j \in 1..Len(draws) : (i < j) => (draws[i].state # draws[j].state)
    /\ rng = SEED + Len(draws)
    /\ \A c \in Returned :
        /\ IdOf(c).r # IdOf(c).l
        /\ draws[IdOf(c).r].by = c[1]
        /\ draws[IdOf(c).l].by = c[1]
        /\ BuiltFrom(IdOf(c).uuid, draws[IdOf(c).r].value, draws[IdOf(c).l].value, endian)
    /\ \A c, d \in Returned :
        (c # d) => ({IdOf(c).r, IdOf(c).l} \cap {IdOf(d).r, IdOf(d).l} = {})

\* Both threads have returned, their draws having alternated.
C17_Witness ==
    /\ Len(draws) = 4
    /\ draws[1].by = "t1" /\ draws[2].by = "t2"
    /\ draws[3].by = "t1" /\ draws[4].by = "t2"
    /\ Len(th["t1"].ids) = 1 /\ Len(th["t2"].ids) = 1
    /\ th["t1"].ids[1].uuid # th["t2"].ids[1].uuid
    /\ endian = "big"

====
